---- MODULE Spec2Model ----
(***************************************************************************)
(* simple-fetch-ts: the SimpleBuilder request builder, the five per-method *)
(* request functions it delegates to, and the query / content-type         *)
(* helpers, as a state machine.                                            *)
(*                                                                         *)
(* Strings that the code builds by concatenation or encoding (URLs, query  *)
(* strings) are sequences of one-character strings.  Strings that the code *)
(* only compares or passes on (header names and values, status texts) are  *)
(* TLA+ strings.  JavaScript values handed to body() are named by the      *)
(* strings of Bodies.                                                      *)
(***************************************************************************)
EXTENDS Integers, Sequences, FiniteSets, TLC

(* ------------------------------ bounds --------------------------------- *)

\* builder operations (configuration and terminal calls) made in one run
MaxOps == 3

\* entries of the query parameter mappings given to serializeQueryParams
MaxEntries == 2

\* requests that may be awaiting the transport or a body read at one time
MaxInflight == 1

(* --------------------------- JavaScript values ------------------------- *)

\* values passed to body(): null, undefined (falsy, as are 0, "" and false),
\* a non-empty string, and a plain object
Bodies == {"null", "undefined", "text", "object"}

\* ToBoolean(v), as used by `this.requestBody` and `requestBody &&`
Truthy(v) == v \in {"text", "object"}

\* typeof v === "object" (true of null as well)
TypeofObject(v) == v \in {"null", "object"}

\* JSON.stringify(v) for the values above
JSONstringify(v) ==
  CASE v = "object" -> "{\"name\":\"example\"}"
    [] v = "null" -> "null"
    [] v = "text" -> "\"text\""
    [] OTHER -> "undefined"

\* the init object handed to the transport has no body key
NoBody == "<no body key>"

(* ------------------------------- headers ------------------------------- *)

\* A HeadersInit value.  kind "record" is a plain object and entries its
\* properties; kind "Headers" is an instance of the Headers class and entries
\* its headers (names held in lower case); kind "array" is an array of
\* [name, value] pairs, pairs its elements and entries the named properties
\* set on the array object itself.
EmptyEntries == [k \in {} |-> ""]

Rec(entries) == [kind |-> "record", entries |-> entries, pairs |-> <<>>]

Hdr(entries) == [kind |-> "Headers", entries |-> entries, pairs |-> <<>>]

Arr(pairs) == [kind |-> "array", entries |-> EmptyEntries, pairs |-> pairs]

\* String.prototype.toLowerCase on the header names and values of the model
toLowerCase(s) ==
  CASE s = "Content-Type" -> "content-type"
    [] s = "X-Id" -> "x-id"
    [] s = "Application/JSON" -> "application/json"
    [] OTHER -> s

\* the HeadersInit values given to headers()
HeaderInputs ==
  { Rec("Content-Type" :> "text/plain"),
    Rec("X-Id" :> "2" @@ "Content-Type" :> "Application/JSON"),
    Hdr("x-id" :> "1" @@ "content-type" :> "application/json") }

\* the defaultHeaders given to the constructor
DefaultHeaders ==
  HeaderInputs \cup { Rec(EmptyEntries),
                      Arr(<< <<"content-type", "application/json">> >>) }

\* the property name of array index i, and String(pair) of an element
IndexKey(i) == IF i = 1 THEN "0" ELSE IF i = 2 THEN "1" ELSE "2"

PairString(p) == p[1] \o "," \o p[2]

\* { ...h }: the own enumerable properties of h.  A Headers instance has
\* none; an array has its indices (each holding a pair) and whatever named
\* properties were set on it.
Spread(h) ==
  IF h.kind = "Headers" THEN EmptyEntries
  ELSE [k \in DOMAIN h.entries \cup {IndexKey(i) : i \in DOMAIN h.pairs} |->
          IF k \in DOMAIN h.entries THEN h.entries[k]
          ELSE PairString(h.pairs[CHOOSE i \in DOMAIN h.pairs : IndexKey(i) = k])]

\* { ...a, ...b }
SpreadMerge(a, b) ==
  [k \in DOMAIN Spread(a) \cup DOMAIN Spread(b) |->
     IF k \in DOMAIN Spread(b) THEN Spread(b)[k] ELSE Spread(a)[k]]

\* h[name] on an object: undefined (modelled "") when the property is absent
Prop(h, name) == IF name \in DOMAIN h.entries THEN h.entries[name] ELSE ""

\* Headers.prototype.get(name): case-insensitive, null (modelled "") when absent
HeadersGet(h, name) ==
  IF toLowerCase(name) \in DOMAIN h.entries THEN h.entries[toLowerCase(name)] ELSE ""

\* headers.find(([key]) => key.toLowerCase() === "content-type") on an array
FindContentType(pairs) ==
  LET hits == {i \in DOMAIN pairs : toLowerCase(pairs[i][1]) = "content-type"}
  IN  IF hits = {} THEN ""
      ELSE pairs[CHOOSE i \in hits : \A j \in hits : i <= j][2]

getContentType(h) ==
  IF h.kind = "array" THEN FindContentType(h.pairs)
  ELSE IF h.kind = "record" THEN Prop(h, "Content-Type")
  ELSE IF h.kind = "Headers" THEN HeadersGet(h, "Content-Type")
  ELSE ""

(* ---------------------------- query strings --------------------------- *)

\* the characters query keys and values are made of
Chars == {"a", "K", "1", "2", "&", "="}

\* encodeURIComponent leaving every character as it is
EncodeCharRaw(c) == <<c>>

\* encodeURIComponent on one character: letters and digits are kept, "&" and
\* "=" are percent-encoded
EncodeChar(c) ==
  IF c = "&" THEN <<"%", "2", "6">>
  ELSE IF c = "=" THEN <<"%", "3", "D">>
  ELSE <<c>>

RECURSIVE encodeURIComponent(_)
encodeURIComponent(str) ==
  IF str = <<>> THEN <<>>
  ELSE EncodeChar(Head(str)) \o encodeURIComponent(Tail(str))

LowerChar(c) == IF c = "K" THEN "k" ELSE c

\* String.prototype.toLowerCase on a query key
KeyToLowerCase(str) == [i \in DOMAIN str |-> LowerChar(str[i])]

\* A query parameter value: type is its JavaScript type ("array" for arrays),
\* str is String(value) for a scalar, items the elements of an array, each a
\* scalar [type, str].
Scalar(t, str) == [type |-> t, str |-> str, items |-> <<>>]

Item(t, str) == [type |-> t, str |-> str]

Array(items) == [type |-> "array", str |-> <<>>, items |-> items]

\* the argument of params(): shape is what was passed (a plain object or
\* not), entries its [key, value] entries in insertion order
Params(shape, entries) == [shape |-> shape, entries |-> entries]

Entry(key, value) == [key |-> key, value |-> value]

\* the value of a decimal digit, -1 for any other character
DigitValue(c) ==
  CASE c = "0" -> 0 [] c = "1" -> 1 [] c = "2" -> 2 [] c = "3" -> 3 [] c = "4" -> 4
    [] c = "5" -> 5 [] c = "6" -> 6 [] c = "7" -> 7 [] c = "8" -> 8 [] c = "9" -> 9
    [] OTHER -> -1

RECURSIVE NumericValue(_)
NumericValue(str) ==
  IF str = <<>> THEN 0
  ELSE 10 * NumericValue(SubSeq(str, 1, Len(str) - 1)) + DigitValue(str[Len(str)])

\* whether a property key is an array index: the canonical decimal form of
\* an integer below 2^32 - 1.  An object lists such keys first.
IsIndexKey(key) ==
  /\ key # <<>>
  /\ Len(key) <= 9
  /\ Len(key) > 1 => key[1] # "0"
  /\ \A i \in DOMAIN key : DigitValue(key[i]) >= 0

\* the entries among those at the places in idx, by ascending index key
RECURSIVE AscendingByKey(_, _)
AscendingByKey(entries, idx) ==
  IF idx = {} THEN <<>>
  ELSE LET least == CHOOSE i \in idx :
                      \A j \in idx : NumericValue(entries[i].key) <= NumericValue(entries[j].key)
       IN  <<entries[least]>> \o AscendingByKey(entries, idx \ {least})

\* entries without those whose key is an index key
RECURSIVE NamedEntries(_)
NamedEntries(entries) ==
  IF entries = <<>> THEN <<>>
  ELSE IF IsIndexKey(Head(entries).key) THEN NamedEntries(Tail(entries))
  ELSE <<Head(entries)>> \o NamedEntries(Tail(entries))

\* Object.entries(params) for a mapping written with the given entries:
\* index keys in ascending numeric order, then the other keys in the order
\* they were inserted
ObjectEntries(entries) ==
  IF \A i \in DOMAIN entries : ~IsIndexKey(entries[i].key) THEN entries
  ELSE AscendingByKey(entries, {i \in DOMAIN entries : IsIndexKey(entries[i].key)})
         \o NamedEntries(entries)

\* the arguments given to params()
ParamInputs ==
  { Params("object", <<>>),
    Params("object", << Entry(<<"K">>, Scalar("string", <<"a", "&">>)) >>),
    Params("object", << Entry(<<"a">>, Scalar("number", <<"1">>)),
                        Entry(<<"K">>, Scalar("null", <<>>)) >>),
    Params("array", <<>>) }

\* the test validateQueryParams applies to one value
ValidValue(v) ==
  \/ v.type = "string"
  \/ v.type = "number"
  \/ /\ v.type = "array"
     /\ \A i \in DOMAIN v.items : v.items[i].type \in {"string", "number"}

\* an error message: a text, with the status and URL some texts carry
Msg(text) == [text |-> text, status |-> 0, url |-> <<>>, key |-> <<>>]

KeyMsg(text, key) == [text |-> text, status |-> 0, url |-> <<>>, key |-> key]

\* new Error(message)
Error(message) == [kind |-> "Error", message |-> message]

NoError == [kind |-> "none", message |-> Msg("")]

\* validateQueryParams: the error it throws, or NoError
validateQueryParams(params) ==
  IF params.shape # "object"
  THEN Error(Msg("Query parameters must be a plain object."))
  ELSE LET entries == ObjectEntries(params.entries)
           bad == {i \in DOMAIN entries : ~ValidValue(entries[i].value)}
       IN  IF bad = {} THEN NoError
           ELSE LET first == CHOOSE i \in bad : \A j \in bad : i <= j
                IN  Error(KeyMsg("Invalid query parameter value for key: Only strings, numbers, or arrays of these are allowed.",
                                 entries[first].key))

\* list.join("&")
RECURSIVE JoinAmp(_)
JoinAmp(list) ==
  IF list = <<>> THEN <<>>
  ELSE IF Len(list) = 1 THEN list[1]
  ELSE list[1] \o <<"&">> \o JoinAmp(Tail(list))

\* the text one entry of the mapping serializes to
SerializeEntry(entry, lowerCaseKeys) ==
  LET finalKey == IF lowerCaseKeys THEN KeyToLowerCase(entry.key) ELSE entry.key
      pair(str) == encodeURIComponent(finalKey) \o <<"=">> \o encodeURIComponent(str)
  IN  IF entry.value.type = "array"
      THEN JoinAmp([i \in DOMAIN entry.value.items |-> pair(entry.value.items[i].str)])
      ELSE pair(entry.value.str)

\* serializeQueryParams: [error, text]; text is the returned string when
\* error is NoError
serializeQueryParams(params, lowerCaseKeys) ==
  LET invalid == validateQueryParams(params)
      entries == ObjectEntries(params.entries)
      nullish == {i \in DOMAIN entries : entries[i].value.type \in {"null", "undefined"}}
  IN  IF invalid # NoError THEN [error |-> invalid, text |-> <<>>]
      ELSE IF nullish # {}
      THEN [error |-> Error(KeyMsg("Invalid query parameter value for key: null or undefined is not allowed.",
                                   LET first == CHOOSE i \in nullish : \A j \in nullish : i <= j
                                   IN  IF lowerCaseKeys
                                       THEN KeyToLowerCase(entries[first].key)
                                       ELSE entries[first].key)),
            text |-> <<>>]
      ELSE [error |-> NoError,
            text |-> JoinAmp([i \in DOMAIN entries |->
                                SerializeEntry(entries[i], lowerCaseKeys)])]

\* new InvalidQueryParamError(key, value)
InvalidQueryParamError(key, value) ==
  [kind |-> "InvalidQueryParamError", key |-> key, value |-> value]

\* new InvalidQueryParamObjectError(params)
InvalidQueryParamObjectError(params) ==
  [kind |-> "InvalidQueryParamObjectError", params |-> params]

(* --------------------------- errors and results ------------------------ *)

\* new SimpleFetchRequestError(method, url, status, statusText, responseBody)
SimpleFetchRequestError(method, reqUrl, status, statusText, responseBody) ==
  [kind |-> "SimpleFetchRequestError", method |-> method, url |-> reqUrl,
   status |-> status, statusText |-> statusText, responseBody |-> responseBody]

\* new InvalidMethodBodyError(method, url)
InvalidMethodBodyError(method, reqUrl) ==
  [kind |-> "InvalidMethodBodyError", method |-> method, url |-> reqUrl]

\* `Network response status ${response.status} with URL: ${url}`
StatusMsg(status, reqUrl) ==
  [text |-> "Network response status with URL", status |-> status,
   url |-> reqUrl, key |-> <<>>]

\* what the transport or a body read rejects with: an Error carrying a
\* message, or a value that is no Error (a plain string)
Failures ==
  { Error(Msg("Network error")),
    [kind |-> "string", message |-> Msg("Some unknown error")] }

\* error instanceof Error
InstanceofError(e) ==
  e.kind \in {"Error", "SimpleFetchRequestError", "InvalidMethodBodyError"}

\* error instanceof SimpleFetchRequestError
InstanceofRequestError(e) == e.kind = "SimpleFetchRequestError"

\* error.message
MessageOf(e) ==
  IF e.kind = "SimpleFetchRequestError"
  THEN [text |-> "request failed with status", status |-> e.status,
        url |-> e.url, key |-> <<>>]
  ELSE IF e.kind = "InvalidMethodBodyError"
  THEN [text |-> "requests should not have a body", status |-> 0,
        url |-> e.url, key |-> <<>>]
  ELSE e.message

\* NormalizeError without the instanceof test: the message is always taken
\* from the value caught
NormalizeErrorAnyMessage(e) == Error(MessageOf(e))

\* new Error(error instanceof Error ? error.message : "An unknown error occurred")
NormalizeError(e) ==
  Error(IF InstanceofError(e) THEN MessageOf(e) ELSE Msg("An unknown error occurred"))

\* the responses the transport resolves with; ok is status in 200..299
Responses ==
  { [ok |-> TRUE, status |-> 200, statusText |-> "OK", headers |-> "response headers"],
    [ok |-> FALSE, status |-> 404, statusText |-> "Not Found", headers |-> "response headers"] }

NoResponse == [ok |-> FALSE, status |-> 0, statusText |-> "", headers |-> ""]

\* what response.text() resolves with, and what response.json() parses to:
\* an object, null, and 0 (a value that is falsy without being null)
Texts == {"Not Found"}

Datas == {"object", "null", "zero"}

(* ------------------------------- the state ------------------------------ *)

Methods == {"GET", "POST", "PUT", "PATCH", "DELETE"}

\* the base URLs a builder is constructed with
Urls == { <<"h", "t", "t", "p", ":", "/", "/", "a">> }

VARIABLES
  url,             \* SimpleBuilder.url
  requestBody,     \* SimpleBuilder.requestBody
  requestHeaders,  \* SimpleBuilder.requestHeaders
  requestParams,   \* SimpleBuilder.requestParams
  pending,         \* the requests awaiting the transport or a body read
  fetchCalls,      \* how many times the transport was called
  logged,          \* how many times the logger was called
  settled,         \* the terminal call the latest step settled, and with what
  lastOp,          \* the builder operation the latest step was
  ops,             \* builder operations made so far
  abortCtl,        \* the controller given to abortController(), if any
  enableAbort,     \* whether the builder creates controllers of its own
  controllers,     \* how many AbortControllers the builder constructed
  signalPassed,    \* the signal the latest dispatched terminal call passed on
  invoked,         \* the helper function the latest step applied, and its result
  instances        \* the builders made from shared objects, and those objects

vars == <<url, requestBody, requestHeaders, requestParams, pending, fetchCalls,
          logged, settled, lastOp, ops, abortCtl, enableAbort, controllers,
          signalPassed, invoked, instances>>

\* the cancellation state of the builder
cancellation == <<abortCtl, enableAbort, controllers, signalPassed>>

builder == <<url, requestBody, requestHeaders, requestParams>>

NoOutcome == [kind |-> "none"]

\* lastOp after a step that is no builder operation
NoOp == [op |-> "", threw |-> FALSE]

\* this.logger(`Error with ${method} request to ${this.url}:`, error)
LogCall(method, builderUrl, error) ==
  [method |-> method, url |-> builderUrl, error |-> error]

NoLog == [method |-> "", url |-> <<>>, error |-> NoOutcome]

\* settled after a step that settles no call.  caller is who awaits the
\* per-method function (a terminal call of the builder, or simpleFetch); log
\* is the logger call the step made; parsed is what response.json() gave.
NoSettled == [method |-> "", url |-> <<>>, response |-> NoResponse, text |-> "",
              cause |-> NoOutcome, state |-> "none", value |-> NoOutcome,
              caller |-> "", log |-> NoLog, parsed |-> ""]

\* An AbortController: one the caller constructed and gave to
\* abortController(), or the id-th one the builder constructed itself.
GivenController(id) == [origin |-> "given", id |-> id]

CreatedController(id) == [origin |-> "created", id |-> id]

NoController == [origin |-> "none", id |-> 0]

\* the controllers a caller hands to abortController()
GivenControllers == {GivenController(1), GivenController(2)}

\* controller.signal, and the undefined passed when there is no controller
SignalOf(c) == [controller |-> c]

NoSignal == SignalOf(NoController)

\* invoked when the latest step applied no helper function
NoCall == [fn |-> ""]

\* instances when a single builder is looked at
NoInstances == [objects |-> <<>>, builders |-> <<>>, given |-> 0]

\* new SimpleBuilder(url, defaultHeaders)
Init ==
  /\ url \in Urls
  /\ requestBody = "null"
  /\ requestHeaders \in DefaultHeaders
  /\ requestParams = <<>>
  /\ pending = <<>>
  /\ fetchCalls = 0
  /\ logged = 0
  /\ settled = NoSettled
  /\ lastOp = [op |-> "new", threw |-> FALSE]
  /\ ops = 0
  /\ abortCtl = NoController
  /\ enableAbort = TRUE
  /\ controllers = 0
  /\ signalPassed = NoSignal
  /\ invoked = NoCall
  /\ instances = NoInstances

(* ------------------------- configuration calls -------------------------- *)

\* body(b)
Body(b) ==
  /\ ops < MaxOps
  /\ requestBody' = b
  /\ lastOp' = [op |-> "body", threw |-> FALSE]
  /\ ops' = ops + 1
  /\ settled' = NoSettled
  /\ UNCHANGED <<url, requestHeaders, requestParams, pending, fetchCalls, logged>>
  /\ UNCHANGED <<cancellation, invoked, instances>>

\* headers(extra)
Headers(extra) ==
  /\ ops < MaxOps
  /\ requestHeaders' = Rec(SpreadMerge(requestHeaders, extra))
  /\ lastOp' = [op |-> "headers", threw |-> FALSE]
  /\ ops' = ops + 1
  /\ settled' = NoSettled
  /\ UNCHANGED <<url, requestBody, requestParams, pending, fetchCalls, logged>>
  /\ UNCHANGED <<cancellation, invoked, instances>>

\* params() appending to the stored query string instead of replacing it
ParamsCallAppend(p, lowerCaseKeys) ==
  LET r == serializeQueryParams(p, lowerCaseKeys)
  IN  /\ ops < MaxOps
      /\ requestParams' = IF r.error = NoError
                          THEN JoinAmp(<<requestParams, r.text>>)
                          ELSE requestParams
      /\ lastOp' = [op |-> "params", threw |-> r.error # NoError]
      /\ ops' = ops + 1
      /\ settled' = NoSettled
      /\ UNCHANGED <<url, requestBody, requestHeaders, pending, fetchCalls, logged>>
      /\ UNCHANGED <<cancellation, invoked, instances>>

\* params(p, lowerCaseKeys): the assignment happens only when
\* serializeQueryParams returns
ParamsCall(p, lowerCaseKeys) ==
  LET r == serializeQueryParams(p, lowerCaseKeys)
  IN  /\ ops < MaxOps
      /\ requestParams' = IF r.error = NoError THEN r.text ELSE requestParams
      /\ lastOp' = [op |-> "params", threw |-> r.error # NoError]
      /\ ops' = ops + 1
      /\ settled' = NoSettled
      /\ UNCHANGED <<url, requestBody, requestHeaders, pending, fetchCalls, logged>>
      /\ UNCHANGED <<cancellation, invoked, instances>>

(* ---------------------------- terminal calls --------------------------- *)

\* buildUrl without the emptiness test: "?" is always appended
buildUrlAlways == url \o <<"?">> \o requestParams

\* buildUrl(): a non-empty query string is appended after "?"
buildUrl == IF requestParams # <<>> THEN url \o <<"?">> \o requestParams ELSE url

\* isHeadersRecord(headers): typeof headers === "object" and no Headers instance
isHeadersRecord(h) == h.kind # "Headers"

\* prepareHeaders taking only a plain object for a record of headers
prepareHeadersRecordOnly(h, b) ==
  IF h.kind = "record" /\ Prop(h, "Content-Type") = "" /\ Truthy(b)
  THEN [h EXCEPT !.entries = ("Content-Type" :> "application/json") @@ h.entries]
  ELSE h

\* prepareHeaders without the test for an existing Content-Type
prepareHeadersOverwrite(h, b) ==
  IF isHeadersRecord(h) /\ Truthy(b)
  THEN [h EXCEPT !.entries = ("Content-Type" :> "application/json") @@ h.entries]
  ELSE h

\* prepareHeaders(): the headers object after the call (it is changed in place)
prepareHeaders(h, b) ==
  IF isHeadersRecord(h) /\ Prop(h, "Content-Type") = "" /\ Truthy(b)
  THEN [h EXCEPT !.entries = ("Content-Type" :> "application/json") @@ h.entries]
  ELSE h

\* the method/body check testing the body for truthiness instead of null
MethodBodyConflictTruthy(method, b) ==
  method \notin {"POST", "PUT", "PATCH", "DELETE"} /\ Truthy(b)

\* the method/body check at the head of handleRequest
MethodBodyConflict(method, b) ==
  method \notin {"POST", "PUT", "PATCH", "DELETE"} /\ b # "null"

\* the per-method function without the stringify step
TransportBodyUnchanged(method, b, h) ==
  IF method \in {"GET", "DELETE"} THEN NoBody ELSE b

\* the body the per-method function hands to the transport
TransportBody(method, b, h) ==
  IF method \in {"GET", "DELETE"} THEN NoBody
  ELSE IF toLowerCase(getContentType(h)) = "application/json"
          /\ Truthy(b) /\ TypeofObject(b)
       THEN JSONstringify(b)
       ELSE b

\* the headers the per-method function hands to the transport: tsDelete
\* passes a spread copy, the others the object they were given
TransportHeaders(method, h) ==
  IF method = "DELETE" THEN Rec(Spread(h)) ELSE h

\* abortController(controller)
AbortControllerCall(c) ==
  /\ ops < MaxOps
  /\ abortCtl' = c
  /\ lastOp' = [op |-> "abortController", threw |-> FALSE]
  /\ ops' = ops + 1
  /\ settled' = NoSettled
  /\ UNCHANGED <<builder, pending, fetchCalls, logged, invoked, instances>>
  /\ UNCHANGED <<enableAbort, controllers, signalPassed>>

\* PassSignal constructing a controller on the first terminal call only and
\* keeping it for the later ones
PassSignalCached(method) ==
  IF MethodBodyConflict(method, requestBody) THEN UNCHANGED cancellation
  ELSE /\ UNCHANGED enableAbort
       /\ IF abortCtl # NoController
          THEN /\ signalPassed' = SignalOf(abortCtl)
               /\ UNCHANGED <<abortCtl, controllers>>
          ELSE IF enableAbort
          THEN /\ controllers' = controllers + 1
               /\ abortCtl' = CreatedController(controllers + 1)
               /\ signalPassed' = SignalOf(CreatedController(controllers + 1))
          ELSE /\ signalPassed' = NoSignal
               /\ UNCHANGED <<abortCtl, controllers>>

\* the signal a dispatched terminal call hands to its per-method function:
\* that of the controller given to abortController(); with none given and
\* cancellation enabled, that of a controller constructed for this call;
\* undefined otherwise
PassSignal(method) ==
  IF MethodBodyConflict(method, requestBody) THEN UNCHANGED cancellation
  ELSE /\ UNCHANGED <<abortCtl, enableAbort>>
       /\ IF abortCtl # NoController
          THEN /\ signalPassed' = SignalOf(abortCtl)
               /\ UNCHANGED controllers
          ELSE IF enableAbort
          THEN /\ controllers' = controllers + 1
               /\ signalPassed' = SignalOf(CreatedController(controllers + 1))
          ELSE /\ signalPassed' = NoSignal
               /\ UNCHANGED controllers

\* handleRequest clearing the request body once the request is dispatched
handleRequestReset(method) ==
  /\ ops < MaxOps
  /\ ops' = ops + 1
  /\ lastOp' = [op |-> method, threw |-> MethodBodyConflict(method, requestBody)]
  /\ UNCHANGED <<url, requestParams, logged, invoked, instances>>
  /\ IF MethodBodyConflict(method, requestBody)
     THEN /\ settled' = [NoSettled EXCEPT !.method = method, !.url = buildUrl,
                                          !.state = "rejected",
                                          !.caller = "builder",
                                          !.value = InvalidMethodBodyError(method, url)]
          /\ UNCHANGED <<requestBody, requestHeaders, pending, fetchCalls>>
     ELSE /\ Len(pending) < MaxInflight
          /\ requestBody' = "null"
          /\ requestHeaders' = prepareHeaders(requestHeaders, requestBody)
          /\ LET call == [url |-> buildUrl, method |-> method,
                          headers |-> TransportHeaders(method, requestHeaders'),
                          body |-> TransportBody(method, requestBody, requestHeaders')]
             IN  pending' = Append(pending, [call |-> call, pc |-> "fetch",
                                             response |-> NoResponse,
                                             caller |-> "builder"])
          /\ fetchCalls' = fetchCalls + 1
          /\ settled' = NoSettled

\* handleRequest(requestFn, method), up to the point where the per-method
\* function suspends at the transport call
handleRequest(method) ==
  /\ ops < MaxOps
  /\ ops' = ops + 1
  /\ lastOp' = [op |-> method, threw |-> MethodBodyConflict(method, requestBody)]
  /\ UNCHANGED <<url, requestBody, requestParams, logged, invoked, instances>>
  /\ IF MethodBodyConflict(method, requestBody)
     THEN /\ settled' = [NoSettled EXCEPT !.method = method, !.url = buildUrl,
                                          !.state = "rejected",
                                          !.caller = "builder",
                                          !.value = InvalidMethodBodyError(method, url)]
          /\ UNCHANGED <<requestHeaders, pending, fetchCalls>>
     ELSE /\ Len(pending) < MaxInflight
          /\ requestHeaders' = prepareHeaders(requestHeaders, requestBody)
          /\ LET call == [url |-> buildUrl, method |-> method,
                          headers |-> TransportHeaders(method, requestHeaders'),
                          body |-> TransportBody(method, requestBody, requestHeaders')]
             IN  pending' = Append(pending, [call |-> call, pc |-> "fetch",
                                             response |-> NoResponse,
                                             caller |-> "builder"])
          /\ fetchCalls' = fetchCalls + 1
          /\ settled' = NoSettled

Fetch == handleRequest("GET") /\ PassSignal("GET")

Post == handleRequest("POST") /\ PassSignal("POST")

Put == handleRequest("PUT") /\ PassSignal("PUT")

Patch == handleRequest("PATCH") /\ PassSignal("PATCH")

Delete == handleRequest("DELETE") /\ PassSignal("DELETE")

(* ----------------- the per-method functions, after the call ------------- *)

Remove(seq, i) == [j \in 1..(Len(seq) - 1) |-> IF j < i THEN seq[j] ELSE seq[j + 1]]

\* the catch block without the instanceof SimpleFetchRequestError rethrow
tsCatchWrapAll(method, e) == NormalizeError(e)

\* the catch block of a per-method function: what it throws for a caught e.
\* tsPost knows no request error and wraps whatever it catches.
tsCatch(method, e) ==
  IF method # "POST" /\ InstanceofRequestError(e) THEN e ELSE NormalizeError(e)

\* the catch block of handleRequest throwing a new Error made from what it
\* caught
handleRequestCatchWrap(e) == NormalizeError(e)

\* the catch block of handleRequest: logs, then throws the error it caught
handleRequestCatch(e) == e

\* request i leaves its per-method function by throwing e: a terminal call
\* of the builder logs what it catches and throws it on, simpleFetch has no
\* catch block
Throws(i, e, text) ==
  LET r == pending[i]
      thrown == tsCatch(r.call.method, e)
  IN  /\ settled' = [method |-> r.call.method, url |-> r.call.url,
                     response |-> r.response, text |-> text, cause |-> e,
                     state |-> "rejected", caller |-> r.caller, parsed |-> "",
                     value |-> IF r.caller = "builder"
                               THEN handleRequestCatch(thrown) ELSE thrown,
                     log |-> IF r.caller = "builder"
                             THEN LogCall(r.call.method, url, thrown) ELSE NoLog]
      /\ logged' = IF r.caller = "builder" THEN logged + 1 ELSE logged
      /\ pending' = Remove(pending, i)

\* the envelope a per-method function returns; tsPost's has no raw field
Envelope(method, data, response) ==
  IF method = "POST"
  THEN [kind |-> "envelope", data |-> data, status |-> response.status,
        headers |-> response.headers]
  ELSE [kind |-> "envelope", data |-> data, status |-> response.status,
        headers |-> response.headers, raw |-> response]

\* simpleFetch returning response?.data || null
simpleFetchResultOr(response) ==
  [kind |-> "data",
   data |-> IF Truthy(response.data) THEN response.data ELSE "null"]

\* what simpleFetch returns for the envelope of tsFetch: response?.data ?? null
simpleFetchResult(response) ==
  [kind |-> "data",
   data |-> IF response.data \in {"null", "undefined"} THEN "null" ELSE response.data]

\* request i leaves its per-method function by returning an envelope, which a
\* terminal call of the builder returns as it is
Returns(i, data) ==
  LET r == pending[i]
      envelope == Envelope(r.call.method, data, r.response)
  IN  /\ settled' = [method |-> r.call.method, url |-> r.call.url,
                     response |-> r.response, text |-> "", cause |-> NoOutcome,
                     state |-> "resolved", caller |-> r.caller, log |-> NoLog,
                     parsed |-> data,
                     value |-> IF r.caller = "simpleFetch"
                               THEN simpleFetchResult(envelope) ELSE envelope]
      /\ pending' = Remove(pending, i)
      /\ UNCHANGED logged

\* the transport resolves with a response: tsPost throws a plain Error on a
\* failure status, the others go on to read the text; on success all parse
TransportResolves(i, response) ==
  /\ i \in DOMAIN pending
  /\ pending[i].pc = "fetch"
  /\ IF ~response.ok /\ pending[i].call.method = "POST"
     THEN LET withResponse == [pending EXCEPT ![i].response = response]
              thrown == tsCatch("POST", Error(StatusMsg(response.status,
                                                        pending[i].call.url)))
          IN  /\ settled' = [method |-> "POST", url |-> pending[i].call.url,
                             response |-> response, text |-> "",
                             cause |-> Error(StatusMsg(response.status, pending[i].call.url)),
                             state |-> "rejected", caller |-> pending[i].caller,
                             parsed |-> "",
                             value |-> IF pending[i].caller = "builder"
                                       THEN handleRequestCatch(thrown) ELSE thrown,
                             log |-> IF pending[i].caller = "builder"
                                     THEN LogCall("POST", url, thrown) ELSE NoLog]
              /\ logged' = IF pending[i].caller = "builder" THEN logged + 1 ELSE logged
              /\ pending' = Remove(withResponse, i)
     ELSE /\ pending' = [pending EXCEPT ![i].response = response,
                                        ![i].pc = IF response.ok THEN "json" ELSE "text"]
          /\ settled' = NoSettled
          /\ UNCHANGED logged
  /\ lastOp' = NoOp
  /\ UNCHANGED <<url, requestBody, requestHeaders, requestParams, fetchCalls, ops>>
  /\ UNCHANGED <<cancellation, invoked, instances>>

\* the per-method function calling the transport again when it rejects
TransportRejectsRetry(i, failure) ==
  /\ i \in DOMAIN pending
  /\ pending[i].pc = "fetch"
  /\ IF fetchCalls < MaxOps
     THEN /\ fetchCalls' = fetchCalls + 1
          /\ settled' = NoSettled
          /\ UNCHANGED <<pending, logged>>
     ELSE /\ Throws(i, failure, "")
          /\ UNCHANGED fetchCalls
  /\ lastOp' = NoOp
  /\ UNCHANGED <<url, requestBody, requestHeaders, requestParams, ops>>
  /\ UNCHANGED <<cancellation, invoked, instances>>

\* the transport rejects (network failure, abort)
TransportRejects(i, failure) ==
  /\ i \in DOMAIN pending
  /\ pending[i].pc = "fetch"
  /\ Throws(i, failure, "")
  /\ lastOp' = NoOp
  /\ UNCHANGED <<url, requestBody, requestHeaders, requestParams, fetchCalls, ops>>
  /\ UNCHANGED <<cancellation, invoked, instances>>

\* response.text() resolves on a failure response
TextResolves(i, text) ==
  /\ i \in DOMAIN pending
  /\ pending[i].pc = "text"
  /\ LET r == pending[i]
     IN  Throws(i, SimpleFetchRequestError(r.call.method, r.call.url, r.response.status,
                                           r.response.statusText, text), text)
  /\ lastOp' = NoOp
  /\ UNCHANGED <<url, requestBody, requestHeaders, requestParams, fetchCalls, ops>>
  /\ UNCHANGED <<cancellation, invoked, instances>>

\* response.text() rejecting with nothing catching it and nothing resuming
\* the per-method function
TextRejectsUnhandled(i, failure) ==
  /\ i \in DOMAIN pending
  /\ pending[i].pc = "text"
  /\ pending' = [pending EXCEPT ![i].pc = "lost"]
  /\ settled' = NoSettled
  /\ lastOp' = NoOp
  /\ UNCHANGED <<url, requestBody, requestHeaders, requestParams, fetchCalls, ops>>
  /\ UNCHANGED <<logged, cancellation, invoked, instances>>

\* response.text() rejects: .catch(() => "Unable to parse response text")
TextRejects(i, failure) ==
  /\ i \in DOMAIN pending
  /\ pending[i].pc = "text"
  /\ LET r == pending[i]
     IN  Throws(i, SimpleFetchRequestError(r.call.method, r.call.url, r.response.status,
                                           r.response.statusText,
                                           "Unable to parse response text"),
                "<unreadable>")
  /\ lastOp' = NoOp
  /\ UNCHANGED <<url, requestBody, requestHeaders, requestParams, fetchCalls, ops>>
  /\ UNCHANGED <<cancellation, invoked, instances>>

\* response.json() resolves with the parsed data
JsonResolves(i, data) ==
  /\ i \in DOMAIN pending
  /\ pending[i].pc = "json"
  /\ Returns(i, data)
  /\ lastOp' = NoOp
  /\ UNCHANGED <<url, requestBody, requestHeaders, requestParams, fetchCalls, ops>>
  /\ UNCHANGED <<cancellation, invoked, instances>>

\* response.json() rejects: the body is no JSON
JsonRejects(i, failure) ==
  /\ i \in DOMAIN pending
  /\ pending[i].pc = "json"
  /\ Throws(i, failure, "")
  /\ lastOp' = NoOp
  /\ UNCHANGED <<url, requestBody, requestHeaders, requestParams, fetchCalls, ops>>
  /\ UNCHANGED <<cancellation, invoked, instances>>

Next ==
  \/ \E b \in Bodies : Body(b)
  \/ \E extra \in HeaderInputs : Headers(extra)
  \/ \E p \in ParamInputs, lowerCaseKeys \in BOOLEAN : ParamsCall(p, lowerCaseKeys)
  \/ Fetch
  \/ Post
  \/ Put
  \/ Patch
  \/ Delete
  \/ \E i \in 1..MaxInflight, response \in Responses : TransportResolves(i, response)
  \/ \E i \in 1..MaxInflight, failure \in Failures : TransportRejects(i, failure)
  \/ \E i \in 1..MaxInflight, text \in Texts : TextResolves(i, text)
  \/ \E i \in 1..MaxInflight, failure \in Failures : TextRejects(i, failure)
  \/ \E i \in 1..MaxInflight, data \in Datas : JsonResolves(i, data)
  \/ \E i \in 1..MaxInflight, failure \in Failures : JsonRejects(i, failure)

Spec == Init /\ [][Next]_vars

\* a step in which an awaited promise (the transport's, or a body read)
\* settles and the per-method function runs on
Settle ==
  \E i \in 1..MaxInflight :
    \/ \E response \in Responses : TransportResolves(i, response)
    \/ \E failure \in Failures : TransportRejects(i, failure)
    \/ \E text \in Texts : TextResolves(i, text)
    \/ \E failure \in Failures : TextRejects(i, failure)
    \/ \E data \in Datas : JsonResolves(i, data)
    \/ \E failure \in Failures : JsonRejects(i, failure)

\* the builder with every promise it awaits settling in the end
LiveSpec == Spec /\ WF_vars(Settle)

(* ------------------- the factory and simpleFetch ------------------------ *)

\* the strings given to simple(): "http://a", "K:a", "", "a" and "http://"
UrlInputs ==
  Urls \cup { <<"K", ":", "a">>, <<>>, <<"a">>,
              <<"h", "t", "t", "p", ":", "/", "/">> }

IsLetter(c) == c \in {"a", "h", "t", "p", "K"}

\* the characters a URL scheme may hold after its first letter
IsSchemeChar(c) == IsLetter(c) \/ c \in {"1", "+", "-", "."}

\* where the scheme of str ends (the place of its ":"), 0 when str starts
\* with no scheme
SchemeEnd(str) ==
  LET ends == {i \in DOMAIN str :
                 /\ str[i] = ":"
                 /\ i > 1
                 /\ IsLetter(str[1])
                 /\ \A j \in 1..(i - 1) : IsSchemeChar(str[j])}
  IN  IF ends = {} THEN 0 ELSE CHOOSE i \in ends : TRUE

\* what follows the scheme once the slashes leading it are dropped: for an
\* http URL it starts with the host
RECURSIVE DropSlashes(_)
DropSlashes(str) ==
  IF str # <<>> /\ Head(str) = "/" THEN DropSlashes(Tail(str)) ELSE str

\* new URL(str) does not throw: str has a scheme, and a host when the scheme
\* is http
URLParses(str) ==
  /\ SchemeEnd(str) > 0
  /\ SubSeq(str, 1, SchemeEnd(str) - 1) = <<"h", "t", "t", "p">>
       => DropSlashes(SubSeq(str, SchemeEnd(str) + 1, Len(str))) # <<>>

\* isValidURL(url)
isValidURL(str) == URLParses(str)

\* new InvalidURLError(url): the message names the URL
InvalidURLError(str) ==
  [kind |-> "InvalidURLError",
   message |-> [text |-> "A valid URL is required, received", status |-> 0,
                url |-> str, key |-> <<>>]]

\* A call of a helper function: the function, its arguments, whether the
\* call has been made yet, and then whether it threw and what it returned or
\* threw.
Call(fn, args) ==
  [fn |-> fn, args |-> args, applied |-> FALSE, threw |-> FALSE, ret |-> ""]

Threw(call, error) == [call EXCEPT !.applied = TRUE, !.threw = TRUE, !.ret = error]

Returned(call, value) == [call EXCEPT !.applied = TRUE, !.ret = value]

\* simple(url) constructing the builder without testing the URL
SimpleUnchecked ==
  /\ invoked.fn = "simple"
  /\ ~invoked.applied
  /\ url' = invoked.args[1]
  /\ requestBody' = "null"
  /\ requestHeaders' = Rec(EmptyEntries)
  /\ requestParams' = <<>>
  /\ lastOp' = [op |-> "new", threw |-> FALSE]
  /\ invoked' = Returned(invoked, "SimpleBuilder")
  /\ settled' = NoSettled
  /\ UNCHANGED <<pending, fetchCalls, logged, ops, cancellation, instances>>

\* simple(url): throws for a URL that is not valid, else returns
\* new SimpleBuilder(url)
Simple ==
  /\ invoked.fn = "simple"
  /\ ~invoked.applied
  /\ IF ~isValidURL(invoked.args[1])
     THEN /\ invoked' = Threw(invoked, InvalidURLError(invoked.args[1]))
          /\ lastOp' = NoOp
          /\ UNCHANGED builder
     ELSE /\ url' = invoked.args[1]
          /\ requestBody' = "null"
          /\ requestHeaders' = Rec(EmptyEntries)
          /\ requestParams' = <<>>
          /\ lastOp' = [op |-> "new", threw |-> FALSE]
          /\ invoked' = Returned(invoked, "SimpleBuilder")
  /\ settled' = NoSettled
  /\ UNCHANGED <<pending, fetchCalls, logged, ops, cancellation, instances>>

\* simpleFetch(url, requestHeaders), up to the point where tsFetch suspends
\* at the transport call
SimpleFetch ==
  /\ invoked.fn = "simpleFetch"
  /\ ~invoked.applied
  /\ Len(pending) < MaxInflight
  /\ pending' = Append(pending,
                        [call |-> [url |-> invoked.args[1], method |-> "GET",
                                   headers |-> TransportHeaders("GET", invoked.args[2]),
                                   body |-> TransportBody("GET", "undefined", invoked.args[2])],
                         pc |-> "fetch", response |-> NoResponse,
                         caller |-> "simpleFetch"])
  /\ fetchCalls' = fetchCalls + 1
  /\ invoked' = Returned(invoked, "Promise")
  /\ lastOp' = NoOp
  /\ settled' = NoSettled
  /\ UNCHANGED <<builder, logged, ops, cancellation, instances>>

(* ----------------------------- cancellation ---------------------------- *)

\* new SimpleBuilder(url), with cancellation enabled or disabled
AbortInit ==
  /\ url \in Urls
  /\ requestBody = "null"
  /\ requestHeaders = Rec(EmptyEntries)
  /\ requestParams = <<>>
  /\ pending = <<>>
  /\ fetchCalls = 0
  /\ logged = 0
  /\ settled = NoSettled
  /\ lastOp = [op |-> "new", threw |-> FALSE]
  /\ ops = 0
  /\ abortCtl = NoController
  /\ enableAbort \in BOOLEAN
  /\ controllers = 0
  /\ signalPassed = NoSignal
  /\ invoked = NoCall
  /\ instances = NoInstances

AbortNext ==
  \/ \E c \in GivenControllers : AbortControllerCall(c)
  \/ Fetch
  \/ Post
  \/ Put
  \/ Patch
  \/ Delete
  \/ Settle

\* the builder used with abortController() and terminal calls only
AbortSpec == AbortInit /\ [][AbortNext]_vars

(* ------------------------- the helper functions ------------------------ *)

\* requests that may be in flight at one time when they may overlap
MaxOverlap == MaxInflight + 1

\* A builder as one of several: its fields, requestHeaders being a reference
\* to an object (a place in instances.objects), as new SimpleBuilder(url,
\* defaultHeaders) leaves it
Instance(ref) == [requestBody |-> "null", requestHeaders |-> ref, requestParams |-> <<>>]

\* the defaultHeaders two builders are constructed with: a plain mapping
\* without Content-Type and an array of pairs
SharedDefaults ==
  { Rec(EmptyEntries), Arr(<< <<"content-type", "application/json">> >>) }

\* two builders constructed with the same defaultHeaders object, or each with
\* an object of its own holding the same entries; the objects the caller made
\* are the first `given`
SharedInit ==
  /\ url \in Urls
  /\ requestBody = "null"
  /\ requestHeaders = Rec(EmptyEntries)
  /\ requestParams = <<>>
  /\ pending = <<>>
  /\ fetchCalls = 0
  /\ logged = 0
  /\ settled = NoSettled
  /\ lastOp = [op |-> "new", threw |-> FALSE, on |-> 0]
  /\ ops = 0
  /\ abortCtl = NoController
  /\ enableAbort = TRUE
  /\ controllers = 0
  /\ signalPassed = NoSignal
  /\ invoked = NoCall
  /\ instances \in
       { [objects |-> <<d>>, builders |-> <<Instance(1), Instance(1)>>, given |-> 1] :
           d \in SharedDefaults }
         \cup { [objects |-> <<d, d>>, builders |-> <<Instance(1), Instance(2)>>,
                 given |-> 2] : d \in SharedDefaults }

\* body(b) on builder k
BodyOn(k, b) ==
  /\ ops < MaxOps
  /\ instances' = [instances EXCEPT !.builders[k].requestBody = b]
  /\ lastOp' = [op |-> "body", threw |-> FALSE, on |-> k]
  /\ ops' = ops + 1
  /\ settled' = NoSettled
  /\ UNCHANGED <<builder, pending, fetchCalls, logged, cancellation, invoked>>

\* headers(extra) on builder k: the merged headers are a new object
HeadersOn(k, extra) ==
  /\ ops < MaxOps
  /\ LET held == instances.objects[instances.builders[k].requestHeaders]
     IN  instances' =
           [instances EXCEPT !.objects = Append(@, Rec(SpreadMerge(held, extra))),
                             !.builders[k].requestHeaders = Len(instances.objects) + 1]
  /\ lastOp' = [op |-> "headers", threw |-> FALSE, on |-> k]
  /\ ops' = ops + 1
  /\ settled' = NoSettled
  /\ UNCHANGED <<builder, pending, fetchCalls, logged, cancellation, invoked>>

\* params(p, lowerCaseKeys) on builder k
ParamsOn(k, p, lowerCaseKeys) ==
  LET r == serializeQueryParams(p, lowerCaseKeys)
  IN  /\ ops < MaxOps
      /\ instances' = IF r.error = NoError
                      THEN [instances EXCEPT !.builders[k].requestParams = r.text]
                      ELSE instances
      /\ lastOp' = [op |-> "params", threw |-> r.error # NoError, on |-> k]
      /\ ops' = ops + 1
      /\ settled' = NoSettled
      /\ UNCHANGED <<builder, pending, fetchCalls, logged, cancellation, invoked>>

\* a terminal call on builder k after which the requests in flight are sent
\* to the URL of the newest call
TerminalOnLateUrl(k, method) ==
  LET b == instances.builders[k]
      held == instances.objects[b.requestHeaders]
      sentUrl == IF b.requestParams # <<>> THEN url \o <<"?">> \o b.requestParams
                 ELSE url
      prepared == prepareHeaders(held, b.requestBody)
  IN  /\ ops < MaxOps
      /\ ops' = ops + 1
      /\ lastOp' = [op |-> method, threw |-> MethodBodyConflict(method, b.requestBody),
                    on |-> k]
      /\ UNCHANGED <<builder, logged, cancellation, invoked>>
      /\ IF MethodBodyConflict(method, b.requestBody)
         THEN /\ settled' = [NoSettled EXCEPT !.method = method, !.url = sentUrl,
                                              !.state = "rejected",
                                              !.caller = "builder",
                                              !.value = InvalidMethodBodyError(method, url)]
              /\ UNCHANGED <<instances, pending, fetchCalls>>
         ELSE /\ Len(pending) < MaxOverlap
              /\ instances' = [instances EXCEPT !.objects[b.requestHeaders] = prepared]
              /\ pending' = Append([i \in DOMAIN pending |->
                                      [pending[i] EXCEPT !.call.url = sentUrl]],
                                   [call |-> [url |-> sentUrl, method |-> method,
                                              headers |-> TransportHeaders(method, prepared),
                                              body |-> TransportBody(method, b.requestBody,
                                                                     prepared)],
                                    pc |-> "fetch", response |-> NoResponse,
                                    caller |-> "builder", on |-> k])
              /\ fetchCalls' = fetchCalls + 1
              /\ settled' = NoSettled

\* a terminal call on builder k, up to the point where the per-method
\* function suspends: prepareHeaders writes into the object the builder holds
TerminalOn(k, method) ==
  LET b == instances.builders[k]
      held == instances.objects[b.requestHeaders]
      sentUrl == IF b.requestParams # <<>> THEN url \o <<"?">> \o b.requestParams
                 ELSE url
      prepared == prepareHeaders(held, b.requestBody)
  IN  /\ ops < MaxOps
      /\ ops' = ops + 1
      /\ lastOp' = [op |-> method, threw |-> MethodBodyConflict(method, b.requestBody),
                    on |-> k]
      /\ UNCHANGED <<builder, logged, cancellation, invoked>>
      /\ IF MethodBodyConflict(method, b.requestBody)
         THEN /\ settled' = [NoSettled EXCEPT !.method = method, !.url = sentUrl,
                                              !.state = "rejected",
                                              !.caller = "builder",
                                              !.value = InvalidMethodBodyError(method, url)]
              /\ UNCHANGED <<instances, pending, fetchCalls>>
         ELSE /\ Len(pending) < MaxOverlap
              /\ instances' = [instances EXCEPT !.objects[b.requestHeaders] = prepared]
              /\ pending' = Append(pending,
                                   [call |-> [url |-> sentUrl, method |-> method,
                                              headers |-> TransportHeaders(method, prepared),
                                              body |-> TransportBody(method, b.requestBody,
                                                                     prepared)],
                                    pc |-> "fetch", response |-> NoResponse,
                                    caller |-> "builder", on |-> k])
              /\ fetchCalls' = fetchCalls + 1
              /\ settled' = NoSettled

SharedNext ==
  \/ \E k \in 1..2, b \in Bodies : BodyOn(k, b)
  \/ \E k \in 1..2, extra \in HeaderInputs : HeadersOn(k, extra)
  \/ \E k \in 1..2, p \in ParamInputs, lowerCaseKeys \in BOOLEAN :
       ParamsOn(k, p, lowerCaseKeys)
  \/ \E k \in 1..2, method \in Methods : TerminalOn(k, method)
  \/ \E i \in 1..MaxOverlap, response \in Responses : TransportResolves(i, response)
  \/ \E i \in 1..MaxOverlap, failure \in Failures : TransportRejects(i, failure)
  \/ \E i \in 1..MaxOverlap, text \in Texts : TextResolves(i, text)
  \/ \E i \in 1..MaxOverlap, failure \in Failures : TextRejects(i, failure)
  \/ \E i \in 1..MaxOverlap, data \in Datas : JsonResolves(i, data)
  \/ \E i \in 1..MaxOverlap, failure \in Failures : JsonRejects(i, failure)

\* two builders of one caller
SharedSpec == SharedInit /\ [][SharedNext]_vars

\* the calls of simple() and of simpleFetch()
FactoryCalls ==
  {Call("simple", <<str>>) : str \in UrlInputs}
    \cup {Call("simpleFetch", <<str, h>>) : str \in Urls, h \in DefaultHeaders}

\* the keys and values of the mappings given to serializeQueryParams: "2"
\* and "11" are index keys; the values are a string, a number, an empty and
\* a mixed array, null, and an array holding a boolean
QueryKeys == { <<"K">>, <<"a", "=">>, <<"2">>, <<"1", "1">> }

QueryValues ==
  { Scalar("string", <<"a", "&">>),
    Scalar("number", <<"1">>),
    Array(<<>>),
    Array(<< Item("number", <<"2">>), Item("string", <<"a">>) >>),
    Scalar("null", <<>>),
    Array(<< Item("number", <<"1">>), Item("boolean", <<>>) >>) }

\* the mappings of at most MaxEntries entries, as lists of entries with
\* different keys in the order they were inserted
QueryMappings ==
  UNION { { entries \in [1..n -> {Entry(k, v) : k \in QueryKeys, v \in QueryValues}] :
              \A i, j \in 1..n : i # j => entries[i].key # entries[j].key }
          : n \in 0..MaxEntries }

\* the arguments given to serializeQueryParams: the mappings, and an array,
\* null and a number in the place of a mapping
SerializeCalls ==
  { Call("serializeQueryParams", <<params, lowerCaseKeys>>) :
      params \in {Params("object", entries) : entries \in QueryMappings}
                   \cup {Params("array", <<>>), Params("null", <<>>),
                         Params("number", <<>>)},
      lowerCaseKeys \in BOOLEAN }

\* lists of [name, value] header entries, no name twice
HeaderEntries ==
  { <<>>,
    << <<"Content-Type", "application/json">> >>,
    << <<"content-type", "application/json">> >>,
    << <<"X-Id", "1">> >>,
    << <<"X-Id", "1">>, <<"Content-Type", "text/plain">> >>,
    << <<"Content-Type", "">> >> }

\* the value of the entry of the list with the given name
ValueOf(pairs, name) ==
  pairs[CHOOSE i \in DOMAIN pairs : pairs[i][1] = name][2]

\* a list of entries as a plain object, as an array of pairs and as a
\* Headers instance (new Headers(pairs), which holds the names in lower case)
AsRecord(pairs) ==
  Rec([name \in {pairs[i][1] : i \in DOMAIN pairs} |-> ValueOf(pairs, name)])

AsArray(pairs) == Arr(pairs)

AsHeaders(pairs) ==
  Hdr([name \in {toLowerCase(pairs[i][1]) : i \in DOMAIN pairs} |->
         pairs[CHOOSE i \in DOMAIN pairs : toLowerCase(pairs[i][1]) = name][2]])

\* the arguments given to getContentType
GetContentTypeCalls ==
  { Call("getContentType", <<headers>>) :
      headers \in UNION { {AsRecord(pairs), AsArray(pairs), AsHeaders(pairs)} :
                            pairs \in HeaderEntries } }

\* getContentType(headers): returns the content type or ""
GetContentTypeCall ==
  /\ invoked.fn = "getContentType"
  /\ ~invoked.applied
  /\ invoked' = Returned(invoked, getContentType(invoked.args[1]))
  /\ UNCHANGED <<builder, pending, fetchCalls, logged, settled, lastOp, ops,
                 cancellation, instances>>

\* serializeQueryParams(params, lowerCaseKeys): returns the query string or
\* throws the validation error
SerializeCall ==
  /\ invoked.fn = "serializeQueryParams"
  /\ ~invoked.applied
  /\ LET r == serializeQueryParams(invoked.args[1], invoked.args[2])
     IN  invoked' = IF r.error = NoError THEN Returned(invoked, r.text)
                    ELSE Threw(invoked, r.error)
  /\ UNCHANGED <<builder, pending, fetchCalls, logged, settled, lastOp, ops,
                 cancellation, instances>>

\* the per-method functions and the method each one sends
PerMethodFns == {"tsFetch", "tsPost", "tsPut", "tsPatch", "tsDelete"}

MethodOf(fn) ==
  CASE fn = "tsFetch" -> "GET"
    [] fn = "tsPost" -> "POST"
    [] fn = "tsPut" -> "PUT"
    [] fn = "tsPatch" -> "PATCH"
    [] fn = "tsDelete" -> "DELETE"

\* the headers given to a per-method function: the lists of entries in their
\* three shapes, and the headers given to the builder
RequestHeaderInputs ==
  DefaultHeaders
    \cup UNION { {AsRecord(pairs), AsArray(pairs), AsHeaders(pairs)} :
                 pairs \in HeaderEntries }

\* the calls of the per-method functions: (url, requestBody, requestHeaders),
\* tsFetch and tsDelete taking no body
PerMethodCalls ==
  { Call(fn, <<str, b, h>>) :
      fn \in {"tsPost", "tsPut", "tsPatch"}, str \in Urls, b \in Bodies,
      h \in RequestHeaderInputs }
    \cup { Call(fn, <<str, NoBody, h>>) :
             fn \in {"tsFetch", "tsDelete"}, str \in Urls,
             h \in RequestHeaderInputs }

\* a per-method function called by itself, up to the point where it suspends
\* at the transport call
PerMethodCall ==
  /\ invoked.fn \in PerMethodFns
  /\ ~invoked.applied
  /\ Len(pending) < MaxInflight
  /\ LET method == MethodOf(invoked.fn)
     IN  pending' = Append(pending,
                           [call |-> [url |-> invoked.args[1], method |-> method,
                                      headers |-> TransportHeaders(method, invoked.args[3]),
                                      body |-> TransportBody(method, invoked.args[2],
                                                             invoked.args[3])],
                            pc |-> "fetch", response |-> NoResponse,
                            caller |-> invoked.fn])
  /\ fetchCalls' = fetchCalls + 1
  /\ invoked' = Returned(invoked, "Promise")
  /\ lastOp' = NoOp
  /\ settled' = NoSettled
  /\ UNCHANGED <<builder, logged, ops, cancellation, instances>>

\* the calls made of the functions that need no builder
HelperCalls ==
  FactoryCalls \cup SerializeCalls \cup GetContentTypeCalls \cup PerMethodCalls

\* no builder has been constructed (url is empty) and one helper call is
\* about to be made
HelperInit ==
  /\ url = <<>>
  /\ requestBody = "null"
  /\ requestHeaders = Rec(EmptyEntries)
  /\ requestParams = <<>>
  /\ pending = <<>>
  /\ fetchCalls = 0
  /\ logged = 0
  /\ settled = NoSettled
  /\ lastOp = NoOp
  /\ ops = 0
  /\ abortCtl = NoController
  /\ enableAbort = TRUE
  /\ controllers = 0
  /\ signalPassed = NoSignal
  /\ invoked \in HelperCalls
  /\ instances = NoInstances

HelperNext ==
  \/ Simple
  \/ SimpleFetch
  \/ SerializeCall
  \/ GetContentTypeCall
  \/ PerMethodCall
  \/ Settle

\* one call of a helper function, from the call to its result
HelperSpec == HelperInit /\ [][HelperNext]_vars

(* ------------------------------ properties ----------------------------- *)

\* whether params is a valid QueryParams value: a plain mapping whose values
\* are strings, numbers, or arrays of strings and numbers
ValidQueryParams(params) ==
  /\ params.shape = "object"
  /\ \A i \in DOMAIN params.entries :
        \/ params.entries[i].value.type \in {"string", "number"}
        \/ /\ params.entries[i].value.type = "array"
           /\ \A j \in DOMAIN params.entries[i].value.items :
                 params.entries[i].value.items[j].type \in {"string", "number"}

\* the key/value pairs of a list of entries, in the order of the list: one
\* per scalar value and one per array element, values in their string form
RECURSIVE KeyValuePairs(_)
KeyValuePairs(entries) ==
  IF entries = <<>> THEN <<>>
  ELSE LET e == Head(entries)
       IN  (IF e.value.type = "array"
            THEN [j \in DOMAIN e.value.items |->
                    [key |-> e.key, value |-> e.value.items[j].str]]
            ELSE << [key |-> e.key, value |-> e.value.str] >>)
           \o KeyValuePairs(Tail(entries))

\* the [name, value] entries a HeadersInit value holds
EntriesOf(h) ==
  IF h.kind = "array" THEN {h.pairs[i] : i \in DOMAIN h.pairs}
  ELSE {<<name, h.entries[name]>> : name \in DOMAIN h.entries}

\* the pieces of a text between the occurrences of a separator
RECURSIVE SplitOn(_, _)
SplitOn(text, sep) ==
  LET at == {i \in DOMAIN text : text[i] = sep}
      first == CHOOSE i \in at : \A j \in at : i <= j
  IN  IF at = {} THEN <<text>>
      ELSE <<SubSeq(text, 1, first - 1)>>
             \o SplitOn(SubSeq(text, first + 1, Len(text)), sep)

\* percent-decoding: %26 is "&", %3D is "="
RECURSIVE PercentDecode(_)
PercentDecode(str) ==
  IF str = <<>> THEN <<>>
  ELSE IF Len(str) >= 3 /\ SubSeq(str, 1, 3) = <<"%", "2", "6">>
  THEN <<"&">> \o PercentDecode(SubSeq(str, 4, Len(str)))
  ELSE IF Len(str) >= 3 /\ SubSeq(str, 1, 3) = <<"%", "3", "D">>
  THEN <<"=">> \o PercentDecode(SubSeq(str, 4, Len(str)))
  ELSE <<Head(str)>> \o PercentDecode(Tail(str))

\* the pair a name=value piece of a query string stands for: name and value
\* are divided at the first "=" and percent-decoded
ParsePair(piece) ==
  LET at == {i \in DOMAIN piece : piece[i] = "="}
      first == CHOOSE i \in at : \A j \in at : i <= j
  IN  IF at = {} THEN [key |-> PercentDecode(piece), value |-> <<>>]
      ELSE [key |-> PercentDecode(SubSeq(piece, 1, first - 1)),
            value |-> PercentDecode(SubSeq(piece, first + 1, Len(piece)))]

\* parsing a query string into its key/value pairs, as URLSearchParams does:
\* the pieces between "&" in their order, empty pieces skipped
ParseQuery(text) ==
  LET pieces == SelectSeq(SplitOn(text, "&"), LAMBDA piece : piece # <<>>)
  IN  [i \in DOMAIN pieces |-> ParsePair(pieces[i])]

\* the text encodedKey=encodedValue of each pair, joined by "&"
PairsText(pairs, lowerCaseKeys) ==
  JoinAmp([i \in DOMAIN pairs |->
             encodeURIComponent(IF lowerCaseKeys THEN KeyToLowerCase(pairs[i].key)
                                ELSE pairs[i].key)
               \o <<"=">> \o encodeURIComponent(pairs[i].value)])

\* the call the latest terminal operation handed to the transport
LatestCall == pending[Len(pending)].call

\* C1: fetch() on a builder whose requestBody is not null rejects with an
\* InvalidMethodBodyError naming GET and the builder's URL, calls the
\* transport zero times and leaves url, body, headers and query string as
\* they were (no Content-Type is injected).
C1_GetWithBodyRejectsBeforeDispatch ==
  [][ (lastOp'.op = "GET" /\ requestBody # "null")
      => /\ settled'.state = "rejected"
         /\ settled'.value = InvalidMethodBodyError("GET", url)
         /\ fetchCalls' = fetchCalls
         /\ pending' = pending
         /\ UNCHANGED builder ]_vars

C1_Witness ==
  /\ lastOp.op = "GET"
  /\ lastOp.threw
  /\ settled.value.kind = "InvalidMethodBodyError"
  /\ Truthy(requestBody)
  /\ requestHeaders.kind = "record"
  /\ "Content-Type" \notin DOMAIN requestHeaders.entries
  /\ fetchCalls = 0

\* C2: in each of the five per-method functions a response with a failure
\* status makes the call reject with a SimpleFetchRequestError carrying the
\* request's method and URL, the response's status and statusText and the
\* response text as body; no envelope is produced.
C2_FailureStatusRejectsWithRequestError ==
  (settled.state # "none" /\ settled.response # NoResponse /\ ~settled.response.ok)
  => /\ settled.state = "rejected"
     /\ settled.value.kind = "SimpleFetchRequestError"
     /\ settled.value.method = settled.method
     /\ settled.value.url = settled.url
     /\ settled.value.status = settled.response.status
     /\ settled.value.statusText = settled.response.statusText
     /\ settled.text # "<unreadable>" => settled.value.responseBody = settled.text

\* C3: a failure that is no request error (the transport or the JSON parse
\* rejecting, with an Error or with a value that is no Error) reaches the
\* caller as a plain Error whose message is the failure's message when the
\* failure is an Error and "An unknown error occurred" otherwise.
C3_OtherFailuresNormalized ==
  (settled.state # "none" /\ settled.cause.kind \in {"Error", "string"})
  => /\ settled.state = "rejected"
     /\ settled.value.kind = "Error"
     /\ settled.value.message =
          IF settled.cause.kind = "Error" THEN settled.cause.message
          ELSE Msg("An unknown error occurred")

C3_Witness ==
  /\ settled.state = "rejected"
  /\ settled.response = NoResponse
  /\ settled.cause.kind = "string"
  /\ settled.value = Error(Msg("An unknown error occurred"))

\* C4: a SimpleFetchRequestError raised for a failure response is the very
\* error the caller of the terminal operation receives.
C4_RequestErrorReachesCallerUnchanged ==
  (settled.state # "none" /\ settled.cause.kind = "SimpleFetchRequestError")
  => /\ settled.state = "rejected"
     /\ settled.value = settled.cause

C4_Witness ==
  /\ settled.state = "rejected"
  /\ settled.cause.kind = "SimpleFetchRequestError"
  /\ settled.value = settled.cause
  /\ settled.value.status = 404
  /\ settled.value.responseBody = "Not Found"

\* C5 as stated: post() on a builder with plain-mapping headers lacking
\* Content-Type and a body that is set (not null) makes exactly one transport
\* call, which receives Content-Type: application/json and the
\* JSON-stringified body.
C5_PostWithBodySendsJson ==
  [][ (/\ lastOp'.op = "POST"
       /\ requestHeaders.kind = "record"
       /\ "Content-Type" \notin DOMAIN requestHeaders.entries
       /\ requestBody # "null")
      => /\ fetchCalls' = fetchCalls + 1
         /\ Len(pending') = Len(pending) + 1
         /\ Prop(pending'[Len(pending')].call.headers, "Content-Type") = "application/json"
         /\ pending'[Len(pending')].call.body = JSONstringify(requestBody) ]_vars

\* C5 amended: the same for a body that is a non-null object.
C5_PostWithObjectBodySendsJson ==
  [][ (/\ lastOp'.op = "POST"
       /\ requestHeaders.kind = "record"
       /\ "Content-Type" \notin DOMAIN requestHeaders.entries
       /\ Truthy(requestBody) /\ TypeofObject(requestBody))
      => /\ fetchCalls' = fetchCalls + 1
         /\ Len(pending') = Len(pending) + 1
         /\ Prop(pending'[Len(pending')].call.headers, "Content-Type") = "application/json"
         /\ pending'[Len(pending')].call.body = JSONstringify(requestBody) ]_vars

C5_Witness ==
  /\ lastOp.op = "POST"
  /\ fetchCalls = 1
  /\ Len(pending) = 1
  /\ requestBody = "object"
  /\ LatestCall.method = "POST"
  /\ LatestCall.headers = Rec("Content-Type" :> "application/json")
  /\ LatestCall.body = JSONstringify("object")

\* C6: a terminal call, from its invocation to its settlement, leaves url,
\* requestBody and requestParams as they were, and requestHeaders either as
\* they were or with Content-Type: application/json added where there was
\* no Content-Type.
C6_TerminalCallKeepsConfiguration ==
  [][ (lastOp'.op \in Methods \/ lastOp' = NoOp)
      => /\ url' = url
         /\ requestBody' = requestBody
         /\ requestParams' = requestParams
         /\ \/ requestHeaders' = requestHeaders
            \/ /\ Prop(requestHeaders, "Content-Type") = ""
               /\ requestHeaders' =
                    [requestHeaders EXCEPT !.entries =
                       ("Content-Type" :> "application/json") @@ requestHeaders.entries] ]_vars

C6_Witness ==
  /\ settled.state = "resolved"
  /\ settled.method = "POST"
  /\ requestBody = "object"
  /\ requestParams # <<>>
  /\ settled.url = url \o <<"?">> \o requestParams
  /\ Prop(requestHeaders, "Content-Type") = "application/json"

\* C7 as stated: once requestBody is not null, no later call makes it null.
C7_BodyNeverClearedOnceSet ==
  [][ requestBody # "null" => requestBody' # "null" ]_vars

\* C7 amended: requestBody is null when the builder is constructed and only
\* a body() call changes it; headers(), params(), the terminal calls and
\* their settlements leave it as it is.
C7_BodyChangedOnlyByBody ==
  /\ requestBody = "null"
  /\ [][ requestBody' # requestBody => lastOp'.op = "body" ]_vars

C7_Witness ==
  /\ settled.state = "resolved"
  /\ settled.method = "PUT"
  /\ requestBody = "text"

\* C8: headers(extra) leaves the stored headers holding every entry of
\* extra with extra's value and every previous entry whose name is not in
\* extra, for plain mappings and Headers instances alike.
C8_HeadersMergeKeepsAllEntries ==
  [][ \A extra \in HeaderInputs :
        (Headers(extra) /\ requestHeaders.kind \in {"record", "Headers"})
        => /\ \A k \in DOMAIN extra.entries :
                Prop(requestHeaders', k) = extra.entries[k]
           /\ \A k \in DOMAIN requestHeaders.entries \ DOMAIN extra.entries :
                Prop(requestHeaders', k) = requestHeaders.entries[k] ]_vars

\* C9: params(values, lowerCaseKeys) stores exactly the serialization of
\* values, whatever was stored before; when the serialization throws, the
\* call throws and url, body, headers and query string are as they were.
C9_ParamsReplacesOrLeavesUntouched ==
  [][ \A p \in ParamInputs, lowerCaseKeys \in BOOLEAN :
        (lastOp'.op = "params" /\ ParamsCall(p, lowerCaseKeys))
        => LET r == serializeQueryParams(p, lowerCaseKeys)
           IN  IF r.error = NoError
               THEN /\ ~lastOp'.threw
                    /\ requestParams' = r.text
                    /\ UNCHANGED <<url, requestBody, requestHeaders>>
               ELSE /\ lastOp'.threw
                    /\ UNCHANGED builder ]_vars

C9_Witness ==
  /\ lastOp.op = "params"
  /\ lastOp.threw
  /\ requestParams = <<"k", "=", "a", "%", "2", "6">>
  /\ requestBody # "null"

\* C10: a terminal operation hands to its per-method function the base URL
\* followed by "?" and the stored query string when that string is not
\* empty, and the base URL alone when it is.
C10_UrlCarriesQueryOnlyWhenNonEmpty ==
  [][ (lastOp'.op \in Methods /\ ~lastOp'.threw)
      => /\ Len(pending') = Len(pending) + 1
         /\ pending'[Len(pending')].call.url =
              IF requestParams = <<>> THEN url
              ELSE url \o <<"?">> \o requestParams ]_vars

C10_Witness ==
  /\ lastOp.op \in Methods
  /\ Len(pending) = 1
  /\ requestParams = <<"K", "=", "a", "%", "2", "6">>
  /\ LatestCall.url = url \o <<"?", "K", "=", "a", "%", "2", "6">>

\* C11: when the per-method function of a terminal call rejects, the logger
\* is called exactly once in that step, with the method, the builder's URL
\* and the error, and the caller receives that very error; no other step
\* (a success, a Method-Body Conflict, a configuration call) calls the logger.
C11_RejectionLoggedOnceThenRethrown ==
  [][ IF settled'.caller = "builder" /\ settled'.cause # NoOutcome
      THEN /\ logged' = logged + 1
           /\ settled'.state = "rejected"
           /\ settled'.log = LogCall(settled'.method, url, settled'.value)
      ELSE /\ logged' = logged
           /\ settled'.log = NoLog ]_vars

C11_Witness ==
  /\ settled.state = "rejected"
  /\ settled.caller = "builder"
  /\ settled.value.kind = "SimpleFetchRequestError"
  /\ settled.log.error = settled.value
  /\ settled.log.method = "DELETE"
  /\ settled.log.url = url
  /\ settled.url # url
  /\ logged = 1

\* C12: a terminal call that passes validation calls the transport once and
\* is settled once, with an envelope or with an error: dispatching adds one
\* transport call and one awaited request, no later step (a failure of any
\* kind included) calls the transport again, a request leaves the awaited
\* ones exactly in the step that settles it, and every awaited request is
\* settled in the end.
C12_OneTransportCallOneSettlement ==
  /\ [][ /\ IF lastOp'.op \in Methods /\ ~lastOp'.threw
            THEN /\ fetchCalls' = fetchCalls + 1
                 /\ Len(pending') = Len(pending) + 1
                 /\ settled'.state = "none"
            ELSE /\ fetchCalls' = fetchCalls
                 /\ Len(pending') <= Len(pending)
                 /\ Len(pending') = Len(pending) - 1
                      <=> (settled'.state # "none" /\ ~lastOp'.threw)
         /\ settled'.state = "resolved" => settled'.value.kind = "envelope"
         /\ settled'.state = "rejected" => InstanceofError(settled'.value) ]_vars
  /\ (pending # <<>>) ~> (settled.state # "none")

C12_Witness ==
  /\ fetchCalls = 1
  /\ pending = <<>>
  /\ settled.state = "rejected"
  /\ settled.cause.kind = "string"
  /\ logged = 1

C14_FactoryValidatesUrl ==
  [][ (invoked'.fn = "simple" /\ invoked'.applied /\ ~invoked.applied)
      => /\ fetchCalls' = fetchCalls
         /\ pending' = pending
         /\ IF isValidURL(invoked.args[1])
            THEN /\ ~invoked'.threw
                 /\ lastOp'.op = "new"
                 /\ url' = invoked.args[1]
                 /\ requestBody' = "null"
                 /\ requestHeaders' = Rec(EmptyEntries)
                 /\ requestParams' = <<>>
            ELSE /\ invoked'.threw
                 /\ invoked'.ret.kind = "InvalidURLError"
                 /\ invoked'.ret.message.url = invoked.args[1]
                 /\ lastOp'.op # "new"
                 /\ UNCHANGED builder ]_vars

C14_Witness ==
  /\ invoked.fn = "simple"
  /\ invoked.applied
  /\ invoked.threw
  /\ invoked.args[1] = <<"h", "t", "t", "p", ":", "/", "/">>
  /\ invoked.ret = InvalidURLError(<<"h", "t", "t", "p", ":", "/", "/">>)
  /\ url = <<>>
  /\ fetchCalls = 0

C16_SerializesPairsInInsertionOrder ==
  (/\ invoked.fn = "serializeQueryParams"
   /\ invoked.applied
   /\ ValidQueryParams(invoked.args[1]))
  => /\ ~invoked.threw
     /\ invoked.ret = PairsText(KeyValuePairs(invoked.args[1].entries), invoked.args[2])

\* C17: serializeQueryParams raises, returning no string, exactly when its
\* input is not a plain mapping or some value is not a string, a number or
\* an array of strings and numbers; the container error identifies the
\* received value, and the value error identifies the first offending key
\* in iteration order together with the invalid value.
C17_ValidationErrorsIdentifyInput ==
  (invoked.fn = "serializeQueryParams" /\ invoked.applied)
  => LET params == invoked.args[1]
         entries == ObjectEntries(params.entries)
         bad == {i \in DOMAIN entries : ~ValidValue(entries[i].value)}
         first == CHOOSE i \in bad : \A j \in bad : i <= j
     IN  IF params.shape # "object"
         THEN invoked.threw /\ invoked.ret = InvalidQueryParamObjectError(params)
         ELSE IF bad # {}
         THEN /\ invoked.threw
              /\ invoked.ret = InvalidQueryParamError(entries[first].key,
                                                     entries[first].value)
         ELSE ~invoked.threw

C19_ContentTypeFoundInEveryShape ==
  (invoked.fn = "getContentType" /\ invoked.applied)
  => /\ ~invoked.threw
     /\ LET hits == {e \in EntriesOf(invoked.args[1]) :
                       toLowerCase(e[1]) = "content-type"}
        IN  IF hits = {} THEN invoked.ret = ""
            ELSE \A e \in hits : invoked.ret = e[2]

\* C20: for every per-method function, a success-status response whose body
\* parses as JSON resolves to an envelope whose data is the parsed body,
\* whose status and headers are those of the response, and whose raw is the
\* response itself.
C20_EnvelopeCarriesTheResponse ==
  (settled.state = "resolved" /\ settled.caller = "builder")
  => /\ settled.response.ok
     /\ settled.value.kind = "envelope"
     /\ settled.value.data = settled.parsed
     /\ settled.value.status = settled.response.status
     /\ settled.value.headers = settled.response.headers
     /\ "raw" \in DOMAIN settled.value
     /\ settled.value.raw = settled.response

\* the headers h with the entry Content-Type: application/json set on them
WithJsonContentType(h) ==
  [h EXCEPT !.entries = ("Content-Type" :> "application/json") @@ h.entries]

ContentTypeOf(h) ==
  LET hits == {e \in EntriesOf(h) : toLowerCase(e[1]) = "content-type"}
  IN  IF hits = {} THEN "" ELSE (CHOOSE e \in hits : TRUE)[2]

\* C22: tsPost, tsPut and tsPatch hand the transport the JSON string of the
\* request body exactly when the content type of the supplied headers is
\* application/json, whatever its case, and the body is a non-null object;
\* otherwise they hand over the body as it is; and they hand over the
\* headers they were given, adding none.
C22_JsonBodyExactlyForJsonContentType ==
  (invoked.fn \in {"tsPost", "tsPut", "tsPatch"} /\ invoked.applied /\ pending # <<>>)
  => LET b == invoked.args[2]
         h == invoked.args[3]
     IN  /\ pending[1].call.body =
              IF toLowerCase(ContentTypeOf(h)) = "application/json" /\ b = "object"
              THEN JSONstringify(b)
              ELSE b
         /\ pending[1].call.headers = h

\* C23: when a response with a failure status yields no text (reading its
\* body fails), the per-method function rejects with a SimpleFetchRequestError
\* carrying the request's method and URL, the response's status and
\* statusText and "Unable to parse response text" as its body; what the read
\* failed with never reaches the caller.
C23_UnreadableFailureBodyStillRequestError ==
  (/\ settled.caller \in PerMethodFns
   /\ settled.response # NoResponse
   /\ ~settled.response.ok
   /\ settled.text \notin Texts)
  => /\ settled.state = "rejected"
     /\ settled.value = SimpleFetchRequestError(settled.method, settled.url,
                                                settled.response.status,
                                                settled.response.statusText,
                                                "Unable to parse response text")
     /\ settled.value \notin Failures

\* C24: for every mapping validation accepts, every key contributes at least
\* one key=value pair to the serialized string: the string holds no empty
\* segment (no leading, trailing or doubled "&") and no key is dropped.
C24_EveryKeyContributesAPair ==
  (invoked.fn = "serializeQueryParams" /\ invoked.applied /\ ~invoked.threw)
  => LET entries == invoked.args[1].entries
         pairs == ParseQuery(invoked.ret)
         keyOf(i) == IF invoked.args[2] THEN KeyToLowerCase(entries[i].key)
                     ELSE entries[i].key
     IN  /\ invoked.ret # <<>>
              => \A i \in DOMAIN SplitOn(invoked.ret, "&") :
                   SplitOn(invoked.ret, "&")[i] # <<>>
         /\ \A i \in DOMAIN entries :
              \E j \in DOMAIN pairs : pairs[j].key = keyOf(i)

\* what builder k of several holds: its URL, body, headers and query string
HeldBy(inst, k) ==
  [url |-> url, requestBody |-> inst.builders[k].requestBody,
   requestHeaders |-> inst.objects[inst.builders[k].requestHeaders],
   requestParams |-> inst.builders[k].requestParams]

\* C25: a configuration or terminal call on one builder, and the settlement
\* of its requests, changes neither what any other builder holds nor any
\* object the caller made, the default headers handed to the constructors
\* included.
C25_BuildersShareNoState ==
  [][ /\ \A k \in 1..2 :
           (lastOp'.op = "" \/ lastOp'.on # k)
           => HeldBy(instances', k) = HeldBy(instances, k)
      /\ \A i \in 1..instances.given :
           instances'.objects[i] = instances.objects[i] ]_vars

\* the requests handed to the transport and not yet settled, in the order
\* of their terminal calls
InFlight(p) == [i \in DOMAIN p |-> p[i].call]

\* C26: the URL, body and headers of a request are those of the builder at
\* the moment of its terminal call. No later body(), headers() or params()
\* call and no later terminal call, on the same builder or on another,
\* changes a request in flight; a step that takes a request out of flight
\* settles that request, under the method and URL it was dispatched with,
\* and leaves the others as they are.
C26_RequestFixedAtTerminalCall ==
  [][ LET n == Len(pending)
      IN  /\ lastOp'.op # "" =>
               /\ Len(pending') >= n
               /\ SubSeq(pending', 1, n) = pending
          /\ \/ /\ Len(pending') >= n
                /\ SubSeq(InFlight(pending'), 1, n) = InFlight(pending)
             \/ /\ Len(pending') = n - 1
                /\ \E i \in 1..n :
                     /\ InFlight(pending') = Remove(InFlight(pending), i)
                     /\ settled'.state \in {"resolved", "rejected"}
                     /\ settled'.method = pending[i].call.method
                     /\ settled'.url = pending[i].call.url ]_vars

\* a terminal call on a builder is made while an earlier request of the same
\* builder is in flight, after a configuration call changed what the builder
\* holds, so that the two requests differ
C26_Witness ==
  /\ Len(pending) = 2
  /\ pending[1].on = pending[2].on
  /\ pending[1].call.body # pending[2].call.body
  /\ pending[1].call.headers # pending[2].call.headers
  /\ lastOp.op \in Methods

\* C27: the method/body check and the Content-Type injection agree on when a
\* body is set. Whenever the builder holds plain-mapping headers without
\* Content-Type, fetch() would reject with InvalidMethodBodyError exactly
\* when post() would inject Content-Type: application/json.
C27_ConflictAndInjectionAgree ==
  (requestHeaders.kind = "record" /\ Prop(requestHeaders, "Content-Type") = "")
    => (MethodBodyConflict("GET", requestBody)
          <=> prepareHeaders(requestHeaders, requestBody) = WithJsonContentType(requestHeaders))

\* C28: delete() on a builder whose body has been set is dispatched, not
\* rejected, and hands no body to the transport; with plain-mapping headers
\* lacking Content-Type it leaves Content-Type: application/json in the
\* headers the builder holds and sends it with the DELETE; and every
\* dispatched call of a builder holding plain-mapping headers sends the
\* Content-Type they hold.
C28_DeleteInjectsWithoutSendingBody ==
  [][ LET sent == pending'[Len(pending')].call
      IN  /\ (lastOp'.op = "DELETE" /\ requestBody # "null") =>
                /\ ~lastOp'.threw
                /\ Len(pending') = Len(pending) + 1
                /\ sent.body = NoBody
                /\ (requestHeaders.kind = "record" /\ Prop(requestHeaders, "Content-Type") = "")
                     => /\ requestHeaders' = WithJsonContentType(requestHeaders)
                        /\ Prop(sent.headers, "Content-Type") = "application/json"
          /\ (lastOp'.op \in Methods /\ ~lastOp'.threw /\ requestHeaders'.kind = "record")
               => Prop(sent.headers, "Content-Type") = Prop(requestHeaders', "Content-Type")
    ]_vars

\* C29: for every per-method function and every shape of headers, the
\* header entries handed to the transport are exactly the entries the caller
\* supplied.
C29_HeadersReachTransportUnchanged ==
  \A i \in DOMAIN pending :
    (pending[i].caller \in PerMethodFns /\ invoked.applied)
      => EntriesOf(pending[i].call.headers) = EntriesOf(invoked.args[3])

\* C30: with the transport call and every body read settling in the end,
\* every terminal call settles. A call rejected by the method/body check is
\* settled by its own step; a dispatched call stays awaited only until a
\* step settles it, resolved or rejected; no request stays in flight for
\* ever; and a request whose failure body is being read ends rejected, its
\* error handed to the logger, whether the read succeeds or not.
C30_EveryTerminalCallSettles ==
  /\ [][ /\ (lastOp'.op \in Methods /\ lastOp'.threw)
              => (settled'.state = "rejected" /\ pending' = pending)
         /\ Len(pending') < Len(pending)
              => settled'.state \in {"resolved", "rejected"} ]_vars
  /\ []<>(pending = <<>>)
  /\ (\E i \in DOMAIN pending : pending[i].pc = "text")
       ~> (settled.state = "rejected" /\ settled.log # NoLog)

\* a request is settled by the failure of reading its failure body, the
\* logger having been called
C30_Witness ==
  /\ pending = <<>>
  /\ settled.state = "rejected"
  /\ settled.text = "<unreadable>"
  /\ settled.log # NoLog
  /\ logged >= 1

====
